---- MODULE Spec2Model ----
(***************************************************************************)
(* Model of app.py: the /api/v1/fetch handler (fetch_item_handler), the    *)
(* Playwright extraction coroutine (fetch_download_url_from_page), the     *)
(* rclone helper and the redis cache they share.                           *)
(*                                                                         *)
(* Text values (hrefs, URLs, cache keys, attribute values) are sequences   *)
(* of one-character strings, so that suffix tests, substring tests, case   *)
(* folding and URL joining are computed rather than assumed.  Python's     *)
(* None is the one-element sequence None below.                            *)
(*                                                                         *)
(* The awaits of the code are the actions.  Consecutive awaits that fail   *)
(* alike are one action: new_context with new_page, and a query with the   *)
(* attribute reads on its result.  An exception leaving the                *)
(* `async with async_playwright()` block runs the block's exit in the same *)
(* step (Playwright's exit requests the driver to stop before it first     *)
(* suspends), and the handler's except clauses then answer without another *)
(* suspension point.                                                       *)
(***************************************************************************)
EXTENDS Integers, Sequences, FiniteSets, TLC

\* Number of requests the service receives, all of which may be in flight
\* at once.
NumReq == 1
\* Longest list of anchors page.query_selector_all("a") returns.
MaxAnchors == 2

Requests == 1..NumReq

----------------------------------------------------------------------------
\* Text

None == <<"<None>">>

\* Python truthiness of an Optional[str]: neither None nor "".
Truthy(s) == s # None /\ s # << >>

\* `x or ""`
OrEmpty(s) == IF Truthy(s) THEN s ELSE << >>

\* The ASCII letters str.lower() and re.IGNORECASE fold.
LowerOf ==
    "A" :> "a" @@ "B" :> "b" @@ "C" :> "c" @@ "D" :> "d" @@ "E" :> "e" @@
    "F" :> "f" @@ "G" :> "g" @@ "H" :> "h" @@ "I" :> "i" @@ "J" :> "j" @@
    "K" :> "k" @@ "L" :> "l" @@ "M" :> "m" @@ "N" :> "n" @@ "O" :> "o" @@
    "P" :> "p" @@ "Q" :> "q" @@ "R" :> "r" @@ "S" :> "s" @@ "T" :> "t" @@
    "U" :> "u" @@ "V" :> "v" @@ "W" :> "w" @@ "X" :> "x" @@ "Y" :> "y" @@
    "Z" :> "z"

UpperCase == DOMAIN LowerOf

LowerChar(c) == IF c \in UpperCase THEN LowerOf[c] ELSE c

\* str.lower()
Lower(s) == [i \in 1..Len(s) |-> LowerChar(s[i])]

EndsWith(s, t) ==
    /\ Len(s) >= Len(t)
    /\ SubSeq(s, Len(s) - Len(t) + 1, Len(s)) = t

\* `t in s`
Contains(s, t) ==
    \E i \in 1..(Len(s) - Len(t) + 1) : SubSeq(s, i, i + Len(t) - 1) = t

\* The alternatives of the extension pattern, each with its leading dot.
FileExtensions ==
    { <<".","z","i","p">>, <<".","t","a","r",".","g","z">>, <<".","t","g","z">>,
      <<".","m","p","4">>, <<".","m","k","v">>, <<".","p","d","f">>,
      <<".","e","x","e">>, <<".","b","i","n">>, <<".","7","z">>,
      <<".","r","a","r">> }

\* re.search(r"\.(zip|...|rar)$", href, re.IGNORECASE): `$` matches at the end
\* of the string and just before a newline that ends it.
ExtensionMatch(href) ==
    LET folded == Lower(href) IN
    \E e \in FileExtensions :
        \/ EndsWith(folded, e)
        \/ EndsWith(folded, e \o <<"\n">>)

DownloadMarker == <<"d","o","w","n","l","o","a","d">>

\* "download" in (href.lower() + cls.lower() + rel.lower())
MarkerMatch(href, cls, rel) ==
    LET text == Lower(href) \o Lower(OrEmpty(cls)) \o Lower(OrEmpty(rel))
    IN  Contains(text, DownloadMarker)

\* urlsplit: a scheme is the text before the first ":" when no "/", "?" or "#"
\* precedes it.
HasScheme(s) ==
    \E i \in 2..Len(s) :
        /\ s[i] = ":"
        /\ \A j \in 1..(i - 1) : s[j] \notin {"/", "?", "#", ":"}

\* Index of the "/" that starts the path of an absolute URL scheme://host/path
\* (0 when the URL has no path).
PathStart(u) ==
    LET auth == CHOOSE i \in 1..Len(u) :
                    /\ i + 2 <= Len(u)
                    /\ SubSeq(u, i, i + 2) = <<":", "/", "/">>
        slashes == { k \in (auth + 3)..Len(u) : u[k] = "/" }
    IN  IF slashes = {} THEN 0
        ELSE CHOOSE k \in slashes : \A m \in slashes : k <= m

LastSlash(u) == CHOOSE k \in 1..Len(u) : u[k] = "/" /\ \A m \in (k + 1)..Len(u) : u[m] # "/"

\* urllib.parse.urljoin(base, href) for a base scheme://host/path and an href
\* that is absolute, rooted ("/...") or a plain relative path without dot
\* segments: the three shapes of the hrefs the model's pages carry.
urljoin(base, href) ==
    IF href = << >> THEN base
    ELSE IF HasScheme(href) THEN href
    ELSE IF href[1] = "/"
         THEN IF PathStart(base) = 0 THEN base \o href
              ELSE SubSeq(base, 1, PathStart(base) - 1) \o href
    ELSE IF PathStart(base) = 0 THEN base \o <<"/">> \o href
    ELSE SubSeq(base, 1, LastSlash(base)) \o href

----------------------------------------------------------------------------
\* Configuration and pure helpers of app.py

\* SERVICE_URL_TEMPLATE up to its "{id}" placeholder, as configured for the
\* model: "h://s/i/{id}".
SERVICE_URL_TEMPLATE == <<"h",":","/","/","s","/","i","/">>

make_target_url(id) == SERVICE_URL_TEMPLATE \o id

\* f"leapcell:link:{id}"
CacheKey(id) ==
    <<"l","e","a","p","c","e","l","l",":","l","i","n","k",":">> \o id

\* Item identifiers callers ask for.
ItemIds == { <<"1">> }

\* selector_hint query parameter: absent, empty, or a CSS selector.
Selector == <<"#","d","l">>
SelectorHints == { None, << >>, Selector }
CoreHints == { None, Selector }

CacheKeys == { CacheKey(i) : i \in ItemIds }

\* A link left in redis by an earlier run of the service.
OldLink == <<"h",":","/","/","m","/","o","l","d">>

----------------------------------------------------------------------------
\* Pages the browser may render

El(href, cls, rel) == [href |-> href, cls |-> cls, rel |-> rel]

\* <a href="/f/x.zip" class="btn">: matches by extension.
AnchorZip == El(<<"/","f","/","x",".","z","i","p">>, <<"b","t","n">>, None)
\* <a href="y.PDF">: relative link, upper-case extension.
AnchorPdf == El(<<"y",".","P","D","F">>, None, None)
\* <a href="/p" class="Download">: marker in the class attribute.
AnchorClass == El(<<"/","p">>, <<"D","o","w","n","l","o","a","d">>, None)
\* <a href="/down" class="loader">: the marker only spans href and class.
AnchorSpan == El(<<"/","d","o","w","n">>, <<"l","o","a","d","e","r">>, None)
\* <a href="/a.zip?v=2" rel="nofollow">: extension not at the end, no marker.
AnchorPlain == El(<<"/","a",".","z","i","p","?","v","=","2">>, None, <<"n","o","f","o","l","l","o","w">>)
\* <a class="download">: no href at all.
AnchorNoHref == El(None, <<"d","o","w","n","l","o","a","d">>, None)

Anchors ==
    { AnchorZip, AnchorPdf, AnchorClass, AnchorSpan, AnchorPlain, AnchorNoHref }

AnchorLists == UNION { [1..n -> Anchors] : n \in 0..MaxAnchors }

\* What page.query_selector(selector_hint) finds, as a list of at most one
\* element: nothing, an element with an absolute link, an element without
\* href, an element with an empty href.
HintedLink == El(<<"h",":","/","/","c","/","g","e","t">>, <<"b","t","n">>, None)
HintedElements ==
    { << >>,
      <<HintedLink>>,
      <<El(None, <<"b","t","n">>, None)>>,
      <<El(<< >>, None, None)>> }

\* The rendered part of a page.
PageContents == [hinted : HintedElements, anchors : AnchorLists]

\* Two pages for the runs that vary the schedule rather than the page: one
\* with a hinted link and an extension anchor, one with no control at all.
CoreContents ==
    { [hinted |-> <<HintedLink>>, anchors |-> <<AnchorZip>>],
      [hinted |-> << >>, anchors |-> <<AnchorPlain>>] }

\* page.url after navigation: the target itself, or where it redirected to.
Redirects == { << >>, <<"/","v","2">> }
CoreRedirects == { << >> }

NoPage == [url |-> None, hinted |-> << >>, anchors |-> << >>]

Page(url, content) ==
    [url |-> url, hinted |-> content.hinted, anchors |-> content.anchors]

----------------------------------------------------------------------------
\* Control location (fetch_download_url_from_page, lines 153-195)

\* Variant of HintCandidate that never uses the hinted element.
HintIgnored(p) == None

\* Lines 157-164: the URL the hint branch returns, None when it returns nothing:
\* no element, or an element whose href is None or "".
HintCandidate(p) ==
    IF p.hinted = << >> THEN None
    ELSE IF Truthy(p.hinted[1].href) THEN urljoin(p.url, p.hinted[1].href)
    ELSE None

NoCandidate == [url |-> None, via |-> "none"]

\* Lines 174-190: the loop over the anchors from index i on.  An anchor without
\* href is skipped; the first anchor left that matches the extension pattern
\* or carries the marker ends the loop.
RECURSIVE ScanFrom(_, _)
ScanFrom(p, i) ==
    IF i > Len(p.anchors) THEN NoCandidate
    ELSE LET a == p.anchors[i] IN
         IF ~Truthy(a.href) THEN ScanFrom(p, i + 1)
         ELSE IF ExtensionMatch(a.href)
              THEN [url |-> urljoin(p.url, a.href), via |-> "extension"]
         ELSE IF MarkerMatch(a.href, a.cls, a.rel)
              THEN [url |-> urljoin(p.url, a.href), via |-> "marker"]
         ELSE ScanFrom(p, i + 1)

\* Variant of the loop in two passes: the extension pattern over all anchors
\* first, the marker only when no anchor matched the pattern.
RECURSIVE FirstByExtension(_, _)
FirstByExtension(p, i) ==
    IF i > Len(p.anchors) THEN NoCandidate
    ELSE IF Truthy(p.anchors[i].href) /\ ExtensionMatch(p.anchors[i].href)
         THEN [url |-> urljoin(p.url, p.anchors[i].href), via |-> "extension"]
    ELSE FirstByExtension(p, i + 1)

RECURSIVE FirstByMarker(_, _)
FirstByMarker(p, i) ==
    IF i > Len(p.anchors) THEN NoCandidate
    ELSE LET a == p.anchors[i] IN
         IF Truthy(a.href) /\ MarkerMatch(a.href, a.cls, a.rel)
         THEN [url |-> urljoin(p.url, a.href), via |-> "marker"]
         ELSE FirstByMarker(p, i + 1)

TwoPassScan(p) ==
    IF FirstByExtension(p, 1) # NoCandidate THEN FirstByExtension(p, 1)
    ELSE FirstByMarker(p, 1)

ScanAnchors(p) == ScanFrom(p, 1)

\* Variant of Fallback without the fallback.
FallbackMissing(c, p) == c

\* Lines 192-195: `if not candidate: candidate = page.url`.
Fallback(c, p) ==
    IF Truthy(c.url) THEN c ELSE [url |-> p.url, via |-> "page"]

----------------------------------------------------------------------------
\* Handler decisions (fetch_item_handler) and collaborators

\* Variant of CacheHit with the test inverted.
CacheHitInverted(v) == ~Truthy(v)

\* Line 236: `if cached_url:`.
CacheHit(v) == Truthy(v)

\* Lines 239-240: an exception of redis.get is logged and the handler goes on.
GetErrorPc == "start"

\* Variant of SetErrorPc in which the exception reaches the outer handler.
SetErrorFatal == "failed"

\* Lines 257-258: an exception of redis.set is logged and the handler goes on.
SetErrorPc == "respond"

\* Variant of redis_set that drops the write.
redis_set_dropped(c, key, value) == c

\* redis.set(key, value, ex=REDIS_TTL) on the store c.
redis_set(c, key, value) == [c EXCEPT ![key] = value]

\* Lines 238 and 260.
JSONResponse(id, url, cached) ==
    [status |-> 200, id |-> id, url |-> url, cached |-> cached]

HTTPException(status) ==
    [status |-> status, id |-> None, url |-> None, cached |-> FALSE]

NoResponse == [status |-> 0, id |-> None, url |-> None, cached |-> FALSE]

\* Variant of StatusFor without the asyncio.TimeoutError clause.
StatusAlways500(type) == 500

\* Lines 262-267: asyncio.TimeoutError gives 504, any other Exception 500.
StatusFor(type) == IF type = "asyncio.TimeoutError" THEN 504 ELSE 500

\* Variant of AfterGoto that goes on after a failed navigation, as the code
\* does after a load-state timeout.
AfterGotoSwallowed(outcome) == "load_state"

\* Lines 130-138: page.goto's outcome; its exceptions are re-raised.
AfterGoto(outcome) == IF outcome = "ok" THEN "load_state" ELSE "failed"

\* Lines 141-146: PlaywrightTimeoutError of wait_for_load_state is swallowed,
\* any other exception propagates.
AfterLoadState(outcome) == IF outcome = "error" THEN "failed" ELSE "sleep"

\* Line 154: `if selector_hint:`.
AfterSleep(hint) == IF Truthy(hint) THEN "hint" ELSE "anchors"

\* Variant of AExit in which leaving the block leaves the browser as it is.
AExitLeak(running) == running

\* Line 101: leaving `async with async_playwright()` stops the driver, which
\* ends the browser it launched and the contexts of that browser.
AExit(running) == FALSE

\* Lines 51-89: rcat, then link; a non-zero exit code of either raises, and the
\* link is the second process's output.  No handler calls it.
rclone_rstream_upload_bytes(rcat_rc, link_rc, out) ==
    IF rcat_rc # 0 THEN [raised |-> TRUE, link |-> None, uploaded |-> FALSE]
    ELSE IF link_rc # 0 THEN [raised |-> TRUE, link |-> None, uploaded |-> TRUE]
    ELSE [raised |-> FALSE, link |-> out, uploaded |-> TRUE]

NoExc == [type |-> "none", at |-> "none"]

NoCalls == [launch |-> 0, goto |-> 0, locate |-> 0, set |-> 0, rclone |-> 0]

\* Where the extraction coroutine can be suspended under asyncio.wait_for.
InFlight ==
    { "start", "launch", "context", "goto", "load_state", "sleep", "hint",
      "close_hint", "anchors", "close" }

----------------------------------------------------------------------------
\* State

VARIABLES
    cache,          \* redis: cache key -> link, None when absent or expired
    pc,             \* where each request task is suspended
    rid,            \* the request's id parameter
    selector_hint,  \* the request's selector_hint parameter
    lookup,         \* how redis.get ended: "none", "hit", "miss", "fail"
    held,           \* what the key held when redis.get ran
    playwright,     \* the request is inside `async with async_playwright()`
    browser,        \* the request's chromium is running
    context,        \* the request's browser context is open
    page,           \* the page navigation ended on
    candidate,      \* download_url / candidate and how it was found
    hint_error,     \* the hint branch's try block caught an exception
    exc,            \* the exception that ended the extraction, and where
    result_url,     \* what the extraction returned
    set_failed,     \* redis.set raised
    written,        \* what the key held once this request's redis.set was done
    resp,           \* the HTTP response
    calls           \* collaborator calls made for this request

vars ==
    << cache, pc, rid, selector_hint, lookup, held, playwright, browser,
       context, page, candidate, hint_error, exc, result_url, set_failed,
       written, resp, calls >>

session == << playwright, browser, context >>
params == << rid, selector_hint >>
lookups == << lookup, held >>
storing == << set_failed, written >>

\* The state when the service starts on a redis that holds the links `links`
\* of an earlier run, or nothing, under each key.
InitWith(links) ==
    /\ cache \in [CacheKeys -> {None} \cup links]
    /\ pc = [r \in Requests |-> "idle"]
    /\ rid = [r \in Requests |-> None]
    /\ selector_hint = [r \in Requests |-> None]
    /\ lookup = [r \in Requests |-> "none"]
    /\ held = [r \in Requests |-> None]
    /\ playwright = [r \in Requests |-> FALSE]
    /\ browser = [r \in Requests |-> FALSE]
    /\ context = [r \in Requests |-> FALSE]
    /\ page = [r \in Requests |-> NoPage]
    /\ candidate = [r \in Requests |-> NoCandidate]
    /\ hint_error = [r \in Requests |-> FALSE]
    /\ exc = [r \in Requests |-> NoExc]
    /\ result_url = [r \in Requests |-> None]
    /\ set_failed = [r \in Requests |-> FALSE]
    /\ written = [r \in Requests |-> None]
    /\ resp = [r \in Requests |-> NoResponse]
    /\ calls = [r \in Requests |-> NoCalls]

Called(r, what) == calls' = [calls EXCEPT ![r][what] = @ + 1]

\* An exception of type `type` leaves the extraction at its current await:
\* the `async with` block, if entered, is left, and the handler is next.
Raise(r, type, next) ==
    /\ exc' = [exc EXCEPT ![r] = [type |-> type, at |-> pc[r]]]
    /\ pc' = [pc EXCEPT ![r] = next]
    /\ playwright' = [playwright EXCEPT ![r] = FALSE]
    /\ browser' = [browser EXCEPT ![r] = IF playwright[r] THEN AExit(@) ELSE @]
    /\ context' = [context EXCEPT ![r] = IF playwright[r] THEN AExit(@) ELSE @]

\* The extraction returns url: the `async with` block is left normally.
Return(r, url) ==
    /\ result_url' = [result_url EXCEPT ![r] = url]
    /\ playwright' = [playwright EXCEPT ![r] = FALSE]
    /\ pc' = [pc EXCEPT ![r] = "store"]

----------------------------------------------------------------------------
\* fetch_item_handler, up to the extraction

\* A request arrives (lines 227-231).
Arrive(r, ids, hints) ==
    /\ pc[r] = "idle"
    /\ \E i \in ids, h \in hints :
          /\ rid' = [rid EXCEPT ![r] = i]
          /\ selector_hint' = [selector_hint EXCEPT ![r] = h]
    /\ pc' = [pc EXCEPT ![r] = "lookup"]
    /\ lookup' = [lookup EXCEPT ![r] = "none"]
    /\ held' = [held EXCEPT ![r] = None]
    /\ page' = [page EXCEPT ![r] = NoPage]
    /\ candidate' = [candidate EXCEPT ![r] = NoCandidate]
    /\ hint_error' = [hint_error EXCEPT ![r] = FALSE]
    /\ exc' = [exc EXCEPT ![r] = NoExc]
    /\ result_url' = [result_url EXCEPT ![r] = None]
    /\ set_failed' = [set_failed EXCEPT ![r] = FALSE]
    /\ written' = [written EXCEPT ![r] = None]
    /\ resp' = [resp EXCEPT ![r] = NoResponse]
    /\ calls' = [calls EXCEPT ![r] = NoCalls]
    /\ UNCHANGED << cache, session >>

\* Lines 234-240: redis.get answers; a hit is returned at once.
LookupOk(r) ==
    /\ pc[r] = "lookup"
    /\ LET v == cache[CacheKey(rid[r])] IN
          /\ held' = [held EXCEPT ![r] = v]
          /\ IF CacheHit(v)
             THEN /\ lookup' = [lookup EXCEPT ![r] = "hit"]
                  /\ resp' = [resp EXCEPT ![r] = JSONResponse(rid[r], v, TRUE)]
                  /\ pc' = [pc EXCEPT ![r] = "done"]
             ELSE /\ lookup' = [lookup EXCEPT ![r] = "miss"]
                  /\ pc' = [pc EXCEPT ![r] = "start"]
                  /\ UNCHANGED resp
    /\ UNCHANGED << cache, params, session, page, candidate, hint_error, exc,
                    result_url, storing, calls >>

\* Lines 239-240: redis.get raises.
LookupRaise(r) ==
    /\ pc[r] = "lookup"
    /\ held' = [held EXCEPT ![r] = cache[CacheKey(rid[r])]]
    /\ lookup' = [lookup EXCEPT ![r] = "fail"]
    /\ pc' = [pc EXCEPT ![r] = GetErrorPc]
    /\ UNCHANGED << cache, params, session, page, candidate, hint_error, exc,
                    result_url, storing, resp, calls >>

----------------------------------------------------------------------------
\* fetch_download_url_from_page, one action per await

\* Line 101: async_playwright() starts the driver.
PlaywrightStart(r) ==
    /\ pc[r] = "start"
    /\ \/ /\ playwright' = [playwright EXCEPT ![r] = TRUE]
          /\ pc' = [pc EXCEPT ![r] = "launch"]
          /\ UNCHANGED << browser, context, exc >>
       \/ Raise(r, "Error", "failed")
    /\ UNCHANGED << cache, params, lookups, page, candidate, hint_error,
                    result_url, storing, resp, calls >>

\* Line 111: p.chromium.launch().
Launch(r) ==
    /\ pc[r] = "launch"
    /\ Called(r, "launch")
    /\ \/ /\ browser' = [browser EXCEPT ![r] = TRUE]
          /\ pc' = [pc EXCEPT ![r] = "context"]
          /\ UNCHANGED << playwright, context, exc >>
       \/ Raise(r, "Error", "failed")
    /\ UNCHANGED << cache, params, lookups, page, candidate, hint_error,
                    result_url, storing, resp >>

\* Lines 124-125: browser.new_context() and context.new_page().
NewContext(r) ==
    /\ pc[r] = "context"
    /\ \/ /\ context' = [context EXCEPT ![r] = TRUE]
          /\ pc' = [pc EXCEPT ![r] = "goto"]
          /\ UNCHANGED << playwright, browser, exc >>
       \/ Raise(r, "Error", "failed")
    /\ UNCHANGED << cache, params, lookups, page, candidate, hint_error,
                    result_url, storing, resp, calls >>

\* Lines 130-135: page.goto() ends on a page of the site.
Goto(r, contents, redirects) ==
    /\ pc[r] = "goto"
    /\ Called(r, "goto")
    /\ \E c \in contents, suffix \in redirects :
          page' = [page EXCEPT ![r] = Page(make_target_url(rid[r]) \o suffix, c)]
    /\ pc' = [pc EXCEPT ![r] = AfterGoto("ok")]
    /\ UNCHANGED << cache, params, lookups, session, candidate, hint_error,
                    exc, result_url, storing, resp >>

\* Lines 136-138: page.goto() times out or fails.
GotoRaise(r) ==
    /\ pc[r] = "goto"
    /\ Called(r, "goto")
    /\ \E type \in {"PlaywrightTimeoutError", "Error"} :
          Raise(r, type, AfterGoto(type))
    /\ UNCHANGED << cache, params, lookups, page, candidate, hint_error,
                    result_url, storing, resp >>

\* Lines 141-146: page.wait_for_load_state("networkidle").
WaitLoadState(r) ==
    /\ pc[r] = "load_state"
    /\ \/ /\ \E outcome \in {"ok", "timeout"} :
                pc' = [pc EXCEPT ![r] = AfterLoadState(outcome)]
          /\ UNCHANGED << session, exc >>
       \/ Raise(r, "Error", AfterLoadState("error"))
    /\ UNCHANGED << cache, params, lookups, page, candidate, hint_error,
                    result_url, storing, resp, calls >>

\* Lines 149-154: asyncio.sleep(WAIT_MS / 1000), then the branch on the hint.
Sleep(r) ==
    /\ pc[r] = "sleep"
    /\ pc' = [pc EXCEPT ![r] = AfterSleep(selector_hint[r])]
    /\ UNCHANGED << cache, params, lookups, session, page, candidate,
                    hint_error, exc, result_url, storing, resp, calls >>

\* Lines 157-168: page.query_selector(selector_hint) and el.get_attribute.
QueryHint(r) ==
    /\ pc[r] = "hint"
    /\ Called(r, "locate")
    /\ LET url == HintCandidate(page[r]) IN
          IF Truthy(url)
          THEN /\ candidate' = [candidate EXCEPT ![r] = [url |-> url, via |-> "hint"]]
               /\ pc' = [pc EXCEPT ![r] = "close_hint"]
          ELSE /\ pc' = [pc EXCEPT ![r] = "anchors"]
               /\ UNCHANGED candidate
    /\ UNCHANGED << cache, params, lookups, session, page, hint_error, exc,
                    result_url, storing, resp >>

\* Lines 169-170: the query or the attribute read raises; the exception is
\* logged and the anchors are scanned.
QueryHintRaise(r) ==
    /\ pc[r] = "hint"
    /\ Called(r, "locate")
    /\ hint_error' = [hint_error EXCEPT ![r] = TRUE]
    /\ pc' = [pc EXCEPT ![r] = "anchors"]
    /\ UNCHANGED << cache, params, lookups, session, page, candidate, exc,
                    result_url, storing, resp >>

\* Lines 163-164: browser.close() on the hint branch, then the return.
CloseHint(r) ==
    /\ pc[r] = "close_hint"
    /\ browser' = [browser EXCEPT ![r] = FALSE]
    /\ context' = [context EXCEPT ![r] = FALSE]
    /\ Return(r, candidate[r].url)
    /\ UNCHANGED << cache, params, lookups, page, candidate, hint_error, exc,
                    storing, resp, calls >>

\* Lines 163 and 169-170: browser.close() raises inside the hint branch's
\* try block; the exception is logged and the anchors are scanned.  Whether
\* the browser is still running after a failed close is not known.
CloseHintRaise(r) ==
    /\ pc[r] = "close_hint"
    /\ \E running \in BOOLEAN :
          /\ browser' = [browser EXCEPT ![r] = running]
          /\ context' = [context EXCEPT ![r] = running]
    /\ hint_error' = [hint_error EXCEPT ![r] = TRUE]
    /\ candidate' = [candidate EXCEPT ![r] = NoCandidate]
    /\ pc' = [pc EXCEPT ![r] = "anchors"]
    /\ UNCHANGED << cache, params, lookups, playwright, page, exc, result_url,
                    storing, resp, calls >>

\* Lines 173-195: page.query_selector_all("a"), the loop, the fallback.
QueryAnchors(r) ==
    /\ pc[r] = "anchors"
    /\ browser[r]
    /\ Called(r, "locate")
    /\ candidate' = [candidate EXCEPT ![r] = Fallback(ScanAnchors(page[r]), page[r])]
    /\ pc' = [pc EXCEPT ![r] = "close"]
    /\ UNCHANGED << cache, params, lookups, session, page, hint_error, exc,
                    result_url, storing, resp >>

\* Lines 173-186: the query or an attribute read raises.
QueryAnchorsRaise(r) ==
    /\ pc[r] = "anchors"
    /\ Called(r, "locate")
    /\ Raise(r, "Error", "failed")
    /\ UNCHANGED << cache, params, lookups, page, candidate, hint_error,
                    result_url, storing, resp >>

\* Lines 197-199: browser.close(), then the return.
Close(r) ==
    /\ pc[r] = "close"
    /\ \/ /\ browser' = [browser EXCEPT ![r] = FALSE]
          /\ context' = [context EXCEPT ![r] = FALSE]
          /\ Return(r, candidate[r].url)
          /\ UNCHANGED exc
       \/ /\ Raise(r, "Error", "failed")
          /\ UNCHANGED result_url
    /\ UNCHANGED << cache, params, lookups, page, candidate, hint_error,
                    storing, resp, calls >>

\* Lines 246-249: OPERATION_TIMEOUT_S passes while the extraction is in
\* flight; asyncio.wait_for cancels it, waits for the cancellation to finish
\* and raises asyncio.TimeoutError.
Deadline(r) ==
    /\ pc[r] \in InFlight
    /\ Raise(r, "asyncio.TimeoutError", "failed")
    /\ UNCHANGED << cache, params, lookups, page, candidate, hint_error,
                    result_url, storing, resp, calls >>

----------------------------------------------------------------------------
\* fetch_item_handler, after the extraction

\* Lines 254-256: redis.set stores the result.
Store(r) ==
    /\ pc[r] = "store"
    /\ Called(r, "set")
    /\ cache' = redis_set(cache, CacheKey(rid[r]), result_url[r])
    /\ written' = [written EXCEPT ![r] = cache'[CacheKey(rid[r])]]
    /\ pc' = [pc EXCEPT ![r] = "respond"]
    /\ UNCHANGED << params, lookups, session, page, candidate, hint_error,
                    exc, result_url, set_failed, resp >>

\* Lines 257-258: redis.set raises.
StoreRaise(r) ==
    /\ pc[r] = "store"
    /\ Called(r, "set")
    /\ set_failed' = [set_failed EXCEPT ![r] = TRUE]
    /\ pc' = [pc EXCEPT ![r] = SetErrorPc]
    /\ UNCHANGED << cache, params, lookups, session, page, candidate,
                    hint_error, exc, result_url, written, resp >>

\* Line 260.
Respond(r) ==
    /\ pc[r] = "respond"
    /\ resp' = [resp EXCEPT ![r] = JSONResponse(rid[r], result_url[r], FALSE)]
    /\ pc' = [pc EXCEPT ![r] = "done"]
    /\ UNCHANGED << cache, params, lookups, session, page, candidate,
                    hint_error, exc, result_url, storing, calls >>

\* Lines 262-267.
RespondError(r) ==
    /\ pc[r] = "failed"
    /\ resp' = [resp EXCEPT ![r] = HTTPException(StatusFor(exc[r].type))]
    /\ pc' = [pc EXCEPT ![r] = "done"]
    /\ UNCHANGED << cache, params, lookups, session, page, candidate,
                    hint_error, exc, result_url, storing, calls >>

\* The key's time-to-live (REDIS_TTL) runs out.
Expire(k) ==
    /\ cache[k] # None
    /\ cache' = [cache EXCEPT ![k] = None]
    /\ UNCHANGED << pc, params, lookups, session, page, candidate, hint_error,
                    exc, result_url, storing, resp, calls >>

----------------------------------------------------------------------------
\* Specifications

\* The service with NumReq concurrent request tasks.
Next ==
    \/ \E r \in Requests : Arrive(r, ItemIds, CoreHints)
    \/ \E r \in Requests : LookupOk(r)
    \/ \E r \in Requests : LookupRaise(r)
    \/ \E r \in Requests : PlaywrightStart(r)
    \/ \E r \in Requests : Launch(r)
    \/ \E r \in Requests : NewContext(r)
    \/ \E r \in Requests : Goto(r, CoreContents, CoreRedirects)
    \/ \E r \in Requests : GotoRaise(r)
    \/ \E r \in Requests : WaitLoadState(r)
    \/ \E r \in Requests : Sleep(r)
    \/ \E r \in Requests : QueryHint(r)
    \/ \E r \in Requests : QueryHintRaise(r)
    \/ \E r \in Requests : CloseHint(r)
    \/ \E r \in Requests : CloseHintRaise(r)
    \/ \E r \in Requests : QueryAnchors(r)
    \/ \E r \in Requests : QueryAnchorsRaise(r)
    \/ \E r \in Requests : Close(r)
    \/ \E r \in Requests : Deadline(r)
    \/ \E r \in Requests : Store(r)
    \/ \E r \in Requests : StoreRaise(r)
    \/ \E r \in Requests : Respond(r)
    \/ \E r \in Requests : RespondError(r)
    \/ \E k \in CacheKeys : Expire(k)

Init == InitWith({OldLink})

Spec == Init /\ [][Next]_vars

\* One request task, over every identifier, hint and page of the pools.
NextScan ==
    \/ Arrive(1, ItemIds, SelectorHints)
    \/ LookupOk(1)
    \/ LookupRaise(1)
    \/ PlaywrightStart(1)
    \/ Launch(1)
    \/ NewContext(1)
    \/ Goto(1, PageContents, Redirects)
    \/ GotoRaise(1)
    \/ WaitLoadState(1)
    \/ Sleep(1)
    \/ QueryHint(1)
    \/ QueryHintRaise(1)
    \/ CloseHint(1)
    \/ CloseHintRaise(1)
    \/ QueryAnchors(1)
    \/ QueryAnchorsRaise(1)
    \/ Close(1)
    \/ Deadline(1)
    \/ Store(1)
    \/ StoreRaise(1)
    \/ Respond(1)
    \/ RespondError(1)

InitScan == InitWith({})

SpecScan == InitScan /\ [][NextScan]_vars

----------------------------------------------------------------------------
\* Properties

Answered(r) == pc[r] = "done"

\* The extraction returned a URL to the handler.
Returned(r) == pc[r] \in {"store", "respond", "done"} /\ exc[r] = NoExc /\ lookup[r] # "hit"

\* The anchor scan of lines 173-195 ran to its end for request r.
Scanned(r) == candidate[r].via \in {"extension", "marker", "page"}

NoSideEffects(r) ==
    /\ calls[r] = NoCalls
    /\ written[r] = None
    /\ ~playwright[r] /\ ~browser[r] /\ ~context[r]

\* C1 as stated: whenever the key of the request's identifier held a valid
\* link when the lookup ran, the response is that link with cached=true, and
\* the request launched no browser, made no rclone call and wrote nothing to
\* the cache.
C1_HeldLinkIsServed ==
    \A r \in Requests :
        (pc[r] \notin {"idle", "lookup"} /\ Truthy(held[r]))
            => /\ resp[r] = JSONResponse(rid[r], held[r], TRUE)
               /\ NoSideEffects(r)

\* C1, amended: whenever redis.get answered and the key held a valid link, the
\* request is answered at once with that link and cached=true, and it
\* launched no browser, made no rclone call and wrote nothing to the cache.
\* (A lookup that raises goes on to the extraction.)
C1_ReturnedLinkIsServed ==
    \A r \in Requests :
        (lookup[r] \in {"hit", "miss"} /\ Truthy(held[r]))
            => /\ Answered(r)
               /\ resp[r] = JSONResponse(rid[r], held[r], TRUE)
               /\ NoSideEffects(r)

C1_Witness ==
    \E r \in Requests :
        /\ lookup[r] = "hit"
        /\ resp[r] = JSONResponse(rid[r], OldLink, TRUE)

\* C2 as stated: a request for an identifier without cache entry that is
\* answered with success and cached=false has stored a link under the
\* identifier's key, and that link is the one in the response.
C2_SuccessHasWritten ==
    \A r \in Requests :
        (Answered(r) /\ ~Truthy(held[r]) /\ resp[r].status = 200 /\ ~resp[r].cached)
            => /\ Truthy(written[r])
               /\ written[r] = resp[r].url

\* C2, amended: a request for an identifier without cache entry that is
\* answered with success and cached=false has called redis.set once before
\* responding; unless that call raised, the identifier's key held the link of
\* the response when the call was done.
C2_SuccessHasWrittenUnlessSetRaised ==
    \A r \in Requests :
        (Answered(r) /\ ~Truthy(held[r]) /\ resp[r].status = 200 /\ ~resp[r].cached)
            => /\ calls[r].set = 1
               /\ ~set_failed[r] => (Truthy(written[r]) /\ written[r] = resp[r].url)
               /\ set_failed[r] => written[r] = None

C2_Witness ==
    \E r \in Requests :
        /\ Answered(r) /\ lookup[r] = "miss" /\ ~set_failed[r]
        /\ resp[r].status = 200 /\ ~resp[r].cached
        /\ written[r] = resp[r].url
        /\ cache[CacheKey(rid[r])] = resp[r].url

\* C3 as stated: a request answered with success and cached=false has had
\* rclone copy the resource and mint a public link after the extraction, and
\* the link stored and returned is that public link.
C3_ReturnedLinkIsPublished ==
    \A r \in Requests :
        (Answered(r) /\ resp[r].status = 200 /\ ~resp[r].cached)
            => calls[r].rclone > 0

\* C4: once the extraction of a request has ended, by a return, an exception
\* or the deadline, its browser and its context are released and the
\* Playwright block is left; no answered request has a browser running.
C4_BrowserReleased ==
    \A r \in Requests :
        pc[r] \in {"store", "respond", "failed", "done"}
            => ~browser[r] /\ ~context[r] /\ ~playwright[r]

C4_Witness ==
    \E r \in Requests :
        /\ Answered(r)
        /\ calls[r].launch = 1
        /\ exc[r] = [type |-> "Error", at |-> "anchors"]
        /\ ~browser[r]

\* C5: a request whose extraction was cut by the overall deadline takes no
\* further extraction step, has its browser and context released, returns no
\* URL, makes no cache write, and is answered with status 504.
C5_DeadlineGives504 ==
    \A r \in Requests :
        exc[r].type = "asyncio.TimeoutError"
            => /\ pc[r] \in {"failed", "done"}
               /\ exc[r].at \in InFlight
               /\ ~browser[r] /\ ~context[r] /\ ~playwright[r]
               /\ result_url[r] = None
               /\ calls[r].set = 0 /\ written[r] = None
               /\ Answered(r) => resp[r] = HTTPException(504)

C5_Witness ==
    \E r \in Requests :
        /\ Answered(r)
        /\ exc[r] = [type |-> "asyncio.TimeoutError", at |-> "goto"]
        /\ calls[r].launch = 1
        /\ resp[r].status = 504

\* C6: a redis.get that raises sends the request to the extraction, as a miss
\* does; a redis.set that raises leaves the request answered with success,
\* the resolved link and cached=false; and every error response comes from an
\* exception or deadline of the extraction, never from the cache calls.
C6_CacheFailuresAreNotFatal ==
    \A r \in Requests :
        /\ lookup[r] = "fail"
              => /\ pc[r] \in InFlight \cup {"store", "respond", "failed", "done"}
                 /\ ~resp[r].cached
        /\ set_failed[r]
              => /\ pc[r] \in {"respond", "done"}
                 /\ Truthy(result_url[r])
                 /\ Answered(r) => resp[r] = JSONResponse(rid[r], result_url[r], FALSE)
        /\ (pc[r] = "failed" \/ resp[r].status \notin {0, 200})
              => /\ exc[r] # NoExc
                 /\ exc[r].at \in InFlight

C6_Witness ==
    \E r \in Requests :
        /\ Answered(r)
        /\ lookup[r] = "fail" /\ held[r] = OldLink
        /\ set_failed[r]
        /\ resp[r] = JSONResponse(rid[r], result_url[r], FALSE)

\* Anchor i of page p has a link that matches the extension pattern.
ByExtension(p, i) == Truthy(p.anchors[i].href) /\ ExtensionMatch(p.anchors[i].href)

\* Anchor i of page p has a link, and the marker occurs in its link, class and
\* rel taken together.
ByMarker(p, i) ==
    /\ Truthy(p.anchors[i].href)
    /\ MarkerMatch(p.anchors[i].href, p.anchors[i].cls, p.anchors[i].rel)

First(S) == CHOOSE i \in S : \A j \in S : i <= j

AnchorUrl(p, i) == urljoin(p.url, p.anchors[i].href)

\* C7 as stated: when the hint was given, the page has an element the hint
\* selects and some anchor matches by extension, the URL returned is the one
\* resolved from the hinted element.
C7_HintedElementWins ==
    \A r \in Requests :
        ( /\ Returned(r)
          /\ Truthy(selector_hint[r])
          /\ page[r].hinted # << >>
          /\ \E i \in DOMAIN page[r].anchors : ByExtension(page[r], i) )
            => /\ candidate[r].via = "hint"
               /\ result_url[r] = urljoin(page[r].url, page[r].hinted[1].href)

\* C7, amended: when the hint was given, the page has an element the hint
\* selects whose href is neither missing nor empty, no call of the hint branch
\* raised, and some anchor matches by extension, the URL returned is the one
\* resolved from the hinted element.
C7_HintedLinkWins ==
    \A r \in Requests :
        ( /\ Returned(r)
          /\ Truthy(selector_hint[r])
          /\ page[r].hinted # << >>
          /\ Truthy(page[r].hinted[1].href)
          /\ ~hint_error[r]
          /\ \E i \in DOMAIN page[r].anchors : ByExtension(page[r], i) )
            => /\ candidate[r].via = "hint"
               /\ result_url[r] = urljoin(page[r].url, page[r].hinted[1].href)

C7_Witness ==
    \E r \in Requests :
        /\ Answered(r) /\ Returned(r)
        /\ page[r].hinted = <<HintedLink>>
        /\ Len(page[r].anchors) = 2 /\ ByExtension(page[r], 1)
        /\ resp[r] = JSONResponse(rid[r], HintedLink.href, FALSE)

\* No control on page p for the hint h: the hint is not given or selects no
\* element with a link, and no anchor with a link matches by extension or by
\* marker.
NoControl(p, h) ==
    /\ ~(Truthy(h) /\ p.hinted # << >> /\ Truthy(p.hinted[1].href))
    /\ \A i \in DOMAIN p.anchors : ~ByExtension(p, i) /\ ~ByMarker(p, i)

\* C8: on a page without any control the scan ends with the page's own URL as
\* candidate, not with an exception; that URL is what the extraction returns
\* and what the success response carries.
C8_NoControlGivesPageUrl ==
    \A r \in Requests :
        (page[r] # NoPage /\ NoControl(page[r], selector_hint[r]))
            => /\ (pc[r] = "close" \/ Returned(r))
                     => candidate[r] = [url |-> page[r].url, via |-> "page"]
               /\ Returned(r) => result_url[r] = page[r].url
               /\ (Answered(r) /\ Returned(r))
                     => resp[r] = JSONResponse(rid[r], page[r].url, FALSE)

C8_Witness ==
    \E r \in Requests :
        /\ Answered(r) /\ Returned(r)
        /\ NoControl(page[r], selector_hint[r])
        /\ Len(page[r].anchors) = 2
        /\ page[r].url # make_target_url(rid[r])
        /\ resp[r] = JSONResponse(rid[r], page[r].url, FALSE)

\* C9 as stated: when the scan ran and some anchor matches by extension, the
\* candidate is the first such anchor, whatever precedes it; the first anchor
\* with the marker is the candidate only when no anchor matches by extension.
C9_ExtensionBeforeMarker ==
    \A r \in Requests :
        Scanned(r) =>
            LET p == page[r]
                ext == { i \in DOMAIN p.anchors : ByExtension(p, i) }
                mark == { i \in DOMAIN p.anchors : ByMarker(p, i) }
            IN  /\ ext # {} => candidate[r].url = AnchorUrl(p, First(ext))
                /\ (ext = {} /\ mark # {}) => candidate[r].url = AnchorUrl(p, First(mark))

\* C9, amended: when the scan ran, the candidate is the first anchor in
\* document order that has a link and matches by extension or by marker,
\* found by extension if it matches the pattern and by marker otherwise; the
\* page URL when there is no such anchor.
C9_FirstMatchingAnchor ==
    \A r \in Requests :
        Scanned(r) =>
            LET p == page[r]
                any == { i \in DOMAIN p.anchors : ByExtension(p, i) \/ ByMarker(p, i) }
            IN  IF any = {}
                THEN candidate[r] = [url |-> p.url, via |-> "page"]
                ELSE /\ candidate[r].url = AnchorUrl(p, First(any))
                     /\ candidate[r].via =
                            IF ByExtension(p, First(any)) THEN "extension" ELSE "marker"

C9_Witness ==
    \E r \in Requests :
        /\ Answered(r) /\ Returned(r) /\ Scanned(r)
        /\ Len(page[r].anchors) = 2
        /\ ~ByExtension(page[r], 1) /\ ByMarker(page[r], 1)
        /\ ByExtension(page[r], 2)
        /\ candidate[r].via = "marker"
        /\ resp[r].url = AnchorUrl(page[r], 1)

====
